---- MODULE Spec2Model ----
(***************************************************************************)
(* A model of src/main.py: the Telegram administration bot of a Minecraft  *)
(* server (class MinecraftServerBot).  The state is the bot object's       *)
(* fields, the files it reads and writes, the timers it has armed in the   *)
(* event loop and the outputs of the request handled last.  One action     *)
(* per handler / callback / timer event.  The parts of a coroutine between *)
(* two awaits that touch the state run as one step, as asyncio runs them.  *)
(*                                                                         *)
(* Texts are sequences of one-character strings, so that strip, split,     *)
(* int and the 02d formatting are computed as Python computes them.        *)
(***************************************************************************)
EXTENDS Integers, Sequences, FiniteSets, TLC

VARIABLES
    phase,            \* "constructed" (after __init__), "polling", "stopped"
    config,           \* the Config values read from .env (fixed for a run)
    backup_settings,  \* self.backup_settings
    settings_file,    \* backup_settings.json: absent, corrupt, or a record
    backup_job,       \* self.backup_job: None or the Cron object
    timers,           \* the Cron objects that are armed in the event loop
    setup_log,        \* what the last setup_auto_backup call did
    now,              \* the wall clock, in seconds
    backup_dir,       \* names of the world_backup_* files, oldest mtime first
    uploads,          \* the archives of the backup runs that are suspended
                      \* at "await send_document"
    total_runs,       \* archives built so far (saturates at MaxRuns)
    keep_changed,     \* keep_count was changed by a request since start
    whitelist_file,   \* whitelist.json: the names json.load yields, in file
                      \* order; none when the file is missing or unparsable
    whitelist_cache,  \* self.whitelist_cache
    clock,            \* the wall clock, to the minute: the minute of the week
                      \* it shows (at) and the one of the event before (prev)
    issued,           \* the server commands and systemctl calls the last
                      \* request made
    last              \* the event handled last: operation, requester, reply
                      \* and the files it deleted

vars == <<phase, config, backup_settings, settings_file, backup_job, timers,
          setup_log, now, backup_dir, uploads, total_runs,
          keep_changed, whitelist_file, whitelist_cache, clock, issued, last>>

schedVars  == <<backup_settings, settings_file, backup_job, timers, setup_log,
                keep_changed>>
backupVars == <<now, backup_dir, uploads, total_runs>>
wlVars     == <<whitelist_file, whitelist_cache>>

-----------------------------------------------------------------------------
(* Bounds of the model *)

\* Cron objects that can exist at once (object identities).
MaxJobs == 2
\* The clock runs from 0 to MaxTime seconds.
MaxTime == 2
\* total_runs counts up to MaxRuns and stays there.
MaxRuns == 3
\* The archives an earlier process can have left are named -MaxPast..-1.
MaxPast == 4

(* Configuration *)

\* Config.ADMIN_ID, an int read from .env
ADMIN_ID == 7

\* Requester identities of the incoming updates.
Users == {ADMIN_ID, 0, -ADMIN_ID}

-----------------------------------------------------------------------------
(* Texts *)

Digits == <<"0", "1", "2", "3", "4", "5", "6", "7", "8", "9">>

IsDigit(c) == \E i \in 1..10 : Digits[i] = c

DigitVal(c) == (CHOOSE i \in 1..10 : Digits[i] = c) - 1

RECURSIVE LStrip(_)
LStrip(s) == IF s # <<>> /\ Head(s) = " " THEN LStrip(Tail(s)) ELSE s

RECURSIVE RStrip(_)
RStrip(s) ==
    IF s # <<>> /\ s[Len(s)] = " " THEN RStrip(SubSeq(s, 1, Len(s) - 1)) ELSE s

\* str.strip()
strip(s) == RStrip(LStrip(s))

\* str.split(sep): the parts between the occurrences of sep
RECURSIVE split(_, _)
split(s, sep) ==
    IF \A i \in 1..Len(s) : s[i] # sep
    THEN <<s>>
    ELSE LET i == CHOOSE k \in 1..Len(s) :
                      s[k] = sep /\ \A j \in 1..(k - 1) : s[j] # sep
         IN  <<SubSeq(s, 1, i - 1)>> \o split(SubSeq(s, i + 1, Len(s)), sep)

RECURSIVE DigitsValue(_)
DigitsValue(s) ==
    IF s = <<>> THEN 0
    ELSE 10 * DigitsValue(SubSeq(s, 1, Len(s) - 1)) + DigitVal(s[Len(s)])

Unsigned(s) ==
    LET t == strip(s) IN IF t # <<>> /\ Head(t) \in {"-", "+"} THEN Tail(t) ELSE t

\* int(s) succeeds: optional blanks, an optional sign, then digits only
int_ok(s) == Unsigned(s) # <<>> /\ \A i \in 1..Len(Unsigned(s)) : IsDigit(Unsigned(s)[i])

\* int(s), where it succeeds
int(s) ==
    IF strip(s)[1] = "-" THEN 0 - DigitsValue(Unsigned(s)) ELSE DigitsValue(Unsigned(s))

\* f"{n:02d}" for n >= 0
fmt02d(n) ==
    IF n < 10 THEN <<"0", Digits[n + 1]>>
    ELSE <<Digits[(n \div 10) + 1], Digits[(n % 10) + 1]>>

T0300 == <<"0", "3", ":", "0", "0">>
T1530 == <<"1", "5", ":", "3", "0">>
\* a stored time with no colon, as .env or a hand-edited file can hold
TBad  == <<"0", "3", "0", "0">>

-----------------------------------------------------------------------------
(* Settings *)

Intervals == {"15min", "30min", "hourly", "daily", "weekly"}

\* The defaults of class Config.
ConfigDefault ==
    [enabled |-> FALSE, interval |-> "daily", time |-> T0300, keep_count |-> 7]

\* The .env files of the model: the defaults, and deployments that set
\* the AUTO_BACKUP_* values (Config declares them str/int/bool, unvalidated).
Configs ==
    { ConfigDefault,
      [enabled |-> TRUE,  interval |-> "daily",   time |-> T0300, keep_count |-> 2],
      [enabled |-> TRUE,  interval |-> "hourly",  time |-> TBad,  keep_count |-> 1],
      [enabled |-> TRUE,  interval |-> "monthly", time |-> T0300, keep_count |-> 0] }

\* backup_settings.json: its status and, when it parses, the record it holds.
NoData == [enabled |-> FALSE, interval |-> "", time |-> <<>>, keep_count |-> 0]

FileAbsent  == [status |-> "absent",  data |-> NoData]
FileCorrupt == [status |-> "corrupt", data |-> NoData]
FileOf(settings) == [status |-> "ok", data |-> settings]

\* What backup_settings.json holds when the process first starts.
InitialFiles ==
    { FileAbsent, FileCorrupt,
      FileOf([enabled |-> TRUE, interval |-> "weekly", time |-> T1530,
              keep_count |-> 3]) }

\* save_backup_settings: json.dump of the settings to the file.  "ok": written;
\* "unchanged": open() failed; "corrupt": the write failed after open("w")
\* truncated the file.  The handlers ignore the returned bool.
SaveOutcomes == {"ok", "unchanged", "corrupt"}

save_backup_settings(settings, file, outcome) ==
    CASE outcome = "ok"        -> FileOf(settings)
      [] outcome = "unchanged" -> file
      [] outcome = "corrupt"   -> FileCorrupt

\* load_backup_settings: the file's record replaces the settings when the file
\* exists and parses; otherwise the settings stay as they are.
load_backup_settings(settings, file) ==
    IF file.status = "ok" THEN file.data ELSE settings

-----------------------------------------------------------------------------
(* The scheduled job *)

None == [id |-> 0, spec |-> <<>>]

Star == <<"*">>

\* The variant of the expressions with the quarter-hour schedule's step
\* written as the minute: '15 * * * *'.
CronSpec_fixed_minute(interval, hour, minute) ==
    CASE interval = "15min"  -> << <<"1", "5">>, Star, Star, Star, Star >>
      [] interval = "30min"  -> << <<"*", "/", "3", "0">>, Star, Star, Star, Star >>
      [] interval = "hourly" -> << <<"0">>, Star, Star, Star, Star >>
      [] interval = "daily"  -> << minute, hour, Star, Star, Star >>
      [] interval = "weekly" -> << minute, hour, Star, Star, <<"0">> >>

\* The variant of the expressions whose daily schedule leaves the hour open:
\* f'{minute} * * * *'.
CronSpec_daily_any_hour(interval, hour, minute) ==
    CASE interval = "15min"  -> << <<"*", "/", "1", "5">>, Star, Star, Star, Star >>
      [] interval = "30min"  -> << <<"*", "/", "3", "0">>, Star, Star, Star, Star >>
      [] interval = "hourly" -> << <<"0">>, Star, Star, Star, Star >>
      [] interval = "daily"  -> << minute, Star, Star, Star, Star >>
      [] interval = "weekly" -> << minute, hour, Star, Star, <<"0">> >>

\* The variant of the expressions whose weekly schedule is Monday's:
\* f'{minute} {hour} * * 1'.
CronSpec_weekly_monday(interval, hour, minute) ==
    CASE interval = "15min"  -> << <<"*", "/", "1", "5">>, Star, Star, Star, Star >>
      [] interval = "30min"  -> << <<"*", "/", "3", "0">>, Star, Star, Star, Star >>
      [] interval = "hourly" -> << <<"0">>, Star, Star, Star, Star >>
      [] interval = "daily"  -> << minute, hour, Star, Star, Star >>
      [] interval = "weekly" -> << minute, hour, Star, Star, <<"1">> >>

\* The crontab expression setup_auto_backup builds, as its five fields.
CronSpec(interval, hour, minute) ==
    CASE interval = "15min"  -> << <<"*", "/", "1", "5">>, Star, Star, Star, Star >>
      [] interval = "30min"  -> << <<"*", "/", "3", "0">>, Star, Star, Star, Star >>
      [] interval = "hourly" -> << <<"0">>, Star, Star, Star, Star >>
      [] interval = "daily"  -> << minute, hour, Star, Star, Star >>
      [] interval = "weekly" -> << minute, hour, Star, Star, <<"0">> >>

\* A fresh Cron object: an identity no armed timer has.
NewJob(live, spec) ==
    [id   |-> CHOOSE i \in 1..(Cardinality(live) + 1) : \A t \in live : t.id # i,
     spec |-> spec]

\* The variant of setup_auto_backup that forgets to stop the previous job.
setup_auto_backup_nostop(settings, job, live) ==
    LET parts == split(settings.time, ":")
        new   == NewJob(live, CronSpec(settings.interval,
                                IF Len(parts) = 2 THEN parts[1] ELSE <<>>,
                                IF Len(parts) = 2 THEN parts[2] ELSE <<>>))
    IN  IF ~settings.enabled
        THEN [job |-> None, timers |-> live,
              log |-> [stopped |-> <<>>, out |-> "disabled"]]
        ELSE IF settings.interval \in {"15min", "30min", "hourly"}
                \/ (settings.interval \in {"daily", "weekly"} /\ Len(parts) = 2)
        THEN [job |-> new, timers |-> live \cup {new},
              log |-> [stopped |-> <<>>, out |-> "armed"]]
        ELSE [job |-> None, timers |-> live,
              log |-> [stopped |-> <<>>, out |-> "error"]]

\* setup_auto_backup: stop the previous job, then build the new one from the
\* settings.  "error": hour, minute = backup_time.split(":") raised (caught
\* and logged); "unscheduled": enabled, but no branch matched the interval.
setup_auto_backup(settings, job, live) ==
    LET stopped == IF job # None THEN <<job>> ELSE <<>>
        live1   == IF job # None THEN live \ {job} ELSE live
        parts   == split(settings.time, ":")
    IN  IF ~settings.enabled
        THEN [job |-> None, timers |-> live1,
              log |-> [stopped |-> stopped, out |-> "disabled"]]
        ELSE IF settings.interval \in {"15min", "30min", "hourly"}
        THEN LET new == NewJob(live1, CronSpec(settings.interval, <<>>, <<>>))
             IN  [job |-> new, timers |-> live1 \cup {new},
                  log |-> [stopped |-> stopped, out |-> "armed"]]
        ELSE IF settings.interval \in {"daily", "weekly"}
        THEN IF Len(parts) # 2
             THEN [job |-> None, timers |-> live1,
                   log |-> [stopped |-> stopped, out |-> "error"]]
             ELSE LET new == NewJob(live1,
                                CronSpec(settings.interval, parts[1], parts[2]))
                  IN  [job |-> new, timers |-> live1 \cup {new},
                       log |-> [stopped |-> stopped, out |-> "armed"]]
        ELSE [job |-> None, timers |-> live1,
              log |-> [stopped |-> stopped, out |-> "unscheduled"]]

-----------------------------------------------------------------------------
(* The fire times of a job: the cron expression, as aiocron reads it *)

\* Min(...) of a set of numbers
SetMin(S) == CHOOSE x \in S : \A y \in S : x <= y

\* The values from lo..hi that a field of a cron expression stands for:
\* "*" is every value, "*/n" every n-th value from lo, a number that value.
FieldValues(f, lo, hi) ==
    IF f = Star THEN lo..hi
    ELSE IF Len(f) > 2 /\ f[1] = "*" /\ f[2] = "/"
    THEN {v \in lo..hi : (v - lo) % int(SubSeq(f, 3, Len(f))) = 0}
    ELSE {v \in lo..hi : int_ok(f) /\ v = int(f)}

\* The first minute of the week after the minute c that the expression
\* matches (the day of the month and the month are "*" in every expression
\* setup_auto_backup builds): minute, hour and day of the week must match.
NextFire(spec, c) ==
    LET Mins   == FieldValues(spec[1], 0, 59)
        Hrs    == FieldValues(spec[2], 0, 23)
        Dws    == FieldValues(spec[5], 0, 6)
        d      == c \div (24 * 60)
        h      == (c % (24 * 60)) \div 60
        m      == c % 60
        laterM == {x \in Mins : x > m}
        laterH == {x \in Hrs : x > h}
        laterD == {x \in Dws : x > d}
    IN  IF d \in Dws /\ h \in Hrs /\ laterM # {}
        THEN d * 24 * 60 + h * 60 + SetMin(laterM)
        ELSE IF d \in Dws /\ laterH # {}
        THEN d * 24 * 60 + SetMin(laterH) * 60 + SetMin(Mins)
        ELSE (IF laterD # {} THEN SetMin(laterD) ELSE SetMin(Dws)) * 24 * 60
             + SetMin(Hrs) * 60 + SetMin(Mins)

-----------------------------------------------------------------------------
(* The backup directory *)

Min(a, b) == IF a < b THEN a ELSE b
Max(a, b) == IF a > b THEN a ELSE b

Names(dir) == {dir[i] : i \in 1..Len(dir)}

Reverse(q) == [i \in 1..Len(q) |-> q[Len(q) + 1 - i]]

\* Writing the file named n: it becomes the file modified last.
WriteFile(dir, n) == Append(SelectSeq(dir, LAMBDA x : x # n), n)

NoPath == [exists |-> FALSE, name |-> 0]
PathOf(n) == [exists |-> TRUE, name |-> n]

\* create_backup: the archive is named after the clock's second.  Outcomes:
\* "missing": the world directory does not exist; "open_failed": tarfile.open
\* raised, no file was made; "write_failed": tar.add raised after the file was
\* opened for writing (the file stays); "ok".
BackupOutcomes == {"missing", "open_failed", "write_failed", "ok"}

create_backup(dir, t, outcome) ==
    CASE outcome = "missing" ->
            [success |-> FALSE, path |-> NoPath, dir |-> dir]
      [] outcome = "open_failed" ->
            [success |-> FALSE, path |-> NoPath, dir |-> dir]
      [] outcome = "write_failed" ->
            [success |-> FALSE, path |-> NoPath, dir |-> WriteFile(dir, t)]
      [] outcome = "ok" ->
            [success |-> TRUE, path |-> PathOf(t), dir |-> WriteFile(dir, t)]

\* backup_files[keep_count:], Python's slice of the list sorted newest first
Excess(dir, k) ==
    LET files == Reverse(dir)
        n     == Len(files)
        from  == IF k >= 0 THEN Min(k, n) ELSE Max(n + k, 0)
    IN  IF n > k THEN SubSeq(files, from + 1, n) ELSE <<>>

\* The variant of cleanup_old_backups that sorts oldest first.
cleanup_old_backups_ascending(dir, k, fail) ==
    LET n       == Len(dir)
        excess  == IF n > k THEN SubSeq(dir, Min(Max(k, 0), n) + 1, n) ELSE <<>>
        deleted == IF fail = 0 THEN excess ELSE SubSeq(excess, 1, fail - 1)
    IN  [dir     |-> SelectSeq(dir, LAMBDA x : x \notin Names(deleted)),
         deleted |-> deleted,
         error   |-> fail # 0]

\* The variant of cleanup_old_backups that keeps one file more than keep_count.
cleanup_old_backups_off_by_one(dir, k, fail) ==
    LET excess  == Excess(dir, k + 1)
        deleted == IF fail = 0 THEN excess ELSE SubSeq(excess, 1, fail - 1)
    IN  [dir     |-> SelectSeq(dir, LAMBDA x : x \notin Names(deleted)),
         deleted |-> deleted,
         error   |-> fail # 0]

\* cleanup_old_backups: unlink the files past keep_count, newest of them first.
\* fail = 0: every unlink succeeds; fail = i: the i-th unlink raises, which
\* ends the loop (the except clause is outside it).
cleanup_old_backups(dir, k, fail) ==
    LET excess  == Excess(dir, k)
        deleted == IF fail = 0 THEN excess ELSE SubSeq(excess, 1, fail - 1)
    IN  [dir     |-> SelectSeq(dir, LAMBDA x : x \notin Names(deleted)),
         deleted |-> deleted,
         error   |-> fail # 0]

-----------------------------------------------------------------------------
(* Authorization and replies *)

\* The variant of is_admin that compares the magnitudes.
is_admin_magnitude(user_id) ==
    (IF user_id < 0 THEN 0 - user_id ELSE user_id) = ADMIN_ID

\* is_admin
is_admin(user_id) == user_id = ADMIN_ID

Handled(op, uid, reply) ==
    [op |-> op, uid |-> uid, reply |-> reply, deleted |-> <<>>]

\* An event of the event loop or of the process, not a request.
Event(op) == [op |-> op, uid |-> 0, reply |-> "none", deleted |-> <<>>]

\* The rejection: the reply is the "no access" notice (or nothing, for the
\* text handler), and nothing else happens.
Deny(op, uid, reply) ==
    /\ last' = Handled(op, uid, reply)
    /\ issued' = <<>>
    /\ UNCHANGED <<phase, config, clock, schedVars, backupVars, wlVars>>

-----------------------------------------------------------------------------
(* Process start and stop *)

\* The files of a set of names, oldest first (a name is the second of the
\* file's making).
RECURSIVE Ascending(_)
Ascending(S) ==
    IF S = {} THEN <<>>
    ELSE LET m == CHOOSE x \in S : \A y \in S : y <= x
         IN  Append(Ascending(S \ {m}), m)

\* What the backup directory can hold when the process starts: the archives
\* that earlier processes left.
InitialDirs == {Ascending(S) : S \in SUBSET ((0 - MaxPast)..(0 - 1))}

\* The minutes of a day and of a week.  Minute 0 of the week is Sunday 00:00,
\* day 0 being cron's day of the week 0.
DayMinutes == 24 * 60
WeekMinutes == 7 * DayMinutes

\* The minute of the week of the day d (0 = Sunday), h:m o'clock.
MinuteOf(d, h, m) == d * DayMinutes + h * 60 + m

\* The clock at the minute m, nothing having happened before.
ClockAt(m) == [at |-> m, prev |-> m]

\* The state after __init__, for the .env files in configs, the settings
\* files in files and a wall clock in clocks.
InitWith(configs, files, clocks) ==
    /\ phase = "constructed"
    /\ config \in configs
    /\ clock \in clocks
    /\ backup_settings = config
    /\ settings_file \in files
    /\ backup_job = None
    /\ timers = {}
    /\ setup_log = [stopped |-> <<>>, out |-> "none"]
    /\ now = 0
    /\ backup_dir \in InitialDirs
    /\ uploads = {}
    /\ total_runs = 0
    /\ keep_changed = FALSE
    /\ whitelist_file \in {<<>>, << <<"a">> >>}
    /\ whitelist_cache = <<>>
    /\ issued = <<>>
    /\ last = Event("init")

Init == InitWith(Configs, InitialFiles, {ClockAt(0)})

\* keep_count differs from the one the earlier archives were kept under
KeepChanged(settings) ==
    keep_changed \/ (total_runs > 0 /\ settings.keep_count # backup_settings.keep_count)

\* load_whitelist
load_whitelist(file) == file

\* start_polling, up to the polling loop
start_polling ==
    /\ phase = "constructed"
    /\ LET s == load_backup_settings(backup_settings, settings_file)
           r == setup_auto_backup(s, backup_job, timers)
       IN  /\ backup_settings' = s
           /\ backup_job' = r.job
           /\ timers' = r.timers
           /\ setup_log' = r.log
           /\ keep_changed' = KeepChanged(s)
    /\ whitelist_cache' = load_whitelist(whitelist_file)
    /\ phase' = "polling"
    /\ last' = Event("start_polling")
    /\ UNCHANGED <<config, clock, settings_file, backupVars, whitelist_file, issued>>

\* The variant of the shutdown that disables the schedule and saves that.
shutdown_disables ==
    /\ phase = "polling"
    /\ timers' = IF backup_job # None THEN timers \ {backup_job} ELSE timers
    /\ backup_settings' = [backup_settings EXCEPT !.enabled = FALSE]
    /\ settings_file' = FileOf(backup_settings')
    /\ uploads' = {}
    /\ phase' = "stopped"
    /\ last' = Event("shutdown")
    /\ UNCHANGED <<config, clock, backup_job, setup_log,
                   keep_changed, now, backup_dir, total_runs, wlVars, issued>>

\* The finally block of start_polling: the job is stopped, the reference
\* stays; the tasks of the loop end with it.
shutdown ==
    /\ phase = "polling"
    /\ timers' = IF backup_job # None THEN timers \ {backup_job} ELSE timers
    /\ uploads' = {}
    /\ phase' = "stopped"
    /\ last' = Event("shutdown")
    /\ UNCHANGED <<config, clock, backup_settings, settings_file, backup_job, setup_log,
                   keep_changed, now, backup_dir, total_runs, wlVars, issued>>

\* A new process: main() builds Config and the bot again (__init__).
restart ==
    /\ phase = "stopped"
    /\ phase' = "constructed"
    /\ backup_settings' = config
    /\ backup_job' = None
    /\ timers' = {}
    /\ setup_log' = [stopped |-> <<>>, out |-> "none"]
    /\ keep_changed' = KeepChanged(config)
    /\ whitelist_cache' = <<>>
    /\ issued' = <<>>
    /\ last' = Event("init")
    /\ UNCHANGED <<config, clock, settings_file, now, backup_dir, uploads, total_runs,
                   whitelist_file>>

\* A second passes.
tick ==
    /\ now < MaxTime
    /\ now' = now + 1
    /\ last' = Event("tick")
    /\ UNCHANGED <<phase, config, clock, schedVars, backup_dir, uploads, total_runs,
                   wlVars, issued>>

-----------------------------------------------------------------------------
(* The scheduled backup *)

CountRun(success) == IF success THEN Min(total_runs + 1, MaxRuns) ELSE total_runs

\* What a run of auto_backup_task logs.
AutoResult(outcome, cleanup_error) ==
    IF outcome = "ok" /\ cleanup_error THEN "cleanup_error" ELSE outcome

\* The variant of auto_backup_task that stops the job when the run fails.
auto_backup_task_stop_on_failure(t, outcome, fail) ==
    LET r == create_backup(backup_dir, t, outcome)
        c == cleanup_old_backups(r.dir, backup_settings.keep_count, fail)
    IN  /\ fail <= Len(Excess(r.dir, backup_settings.keep_count))
        /\ r.success \/ fail = 0
        /\ backup_dir' = IF r.success THEN c.dir ELSE r.dir
        /\ uploads' = IF r.success THEN uploads \cup {r.path.name} ELSE uploads
        /\ timers' = IF r.success THEN timers ELSE timers \ {backup_job}
        /\ backup_job' = IF r.success THEN backup_job ELSE None
        /\ total_runs' = CountRun(r.success)
        /\ last' = [op |-> "auto_backup_task", uid |-> 0,
                    reply |-> AutoResult(outcome, r.success /\ c.error),
                    deleted |-> IF r.success THEN c.deleted ELSE <<>>]
        /\ now' = t
        /\ UNCHANGED <<phase, config, backup_settings, settings_file, setup_log,
                       keep_changed, wlVars, issued>>

\* The variant of auto_backup_task that runs once: it stops its job.
auto_backup_task_one_shot(t, outcome, fail) ==
    LET r == create_backup(backup_dir, t, outcome)
        c == cleanup_old_backups(r.dir, backup_settings.keep_count, fail)
    IN  /\ fail <= Len(Excess(r.dir, backup_settings.keep_count))
        /\ r.success \/ fail = 0
        /\ backup_dir' = IF r.success THEN c.dir ELSE r.dir
        /\ uploads' = IF r.success THEN uploads \cup {r.path.name} ELSE uploads
        /\ timers' = timers \ {backup_job}
        /\ backup_job' = None
        /\ total_runs' = CountRun(r.success)
        /\ last' = [op |-> "auto_backup_task", uid |-> 0,
                    reply |-> AutoResult(outcome, r.success /\ c.error),
                    deleted |-> IF r.success THEN c.deleted ELSE <<>>]
        /\ now' = t
        /\ UNCHANGED <<phase, config, backup_settings, settings_file, setup_log,
                       keep_changed, wlVars, issued>>

\* The variant of auto_backup_task with an await between create_backup and
\* cleanup_old_backups: the step ends before the retention pass.
auto_backup_task_yields(t, outcome, fail) ==
    LET r == create_backup(backup_dir, t, outcome)
    IN  /\ fail = 0
        /\ backup_dir' = r.dir
        /\ uploads' = IF r.success THEN uploads \cup {r.path.name} ELSE uploads
        /\ total_runs' = CountRun(r.success)
        /\ last' = [op |-> "auto_backup_task", uid |-> 0,
                    reply |-> outcome, deleted |-> <<>>]
        /\ now' = t
        /\ UNCHANGED <<phase, config, schedVars, wlVars, issued>>

\* The variant of auto_backup_task that runs the retention pass and the upload
\* whether or not the archive was built.
auto_backup_task_cleanup_always(t, outcome, fail) ==
    LET r == create_backup(backup_dir, t, outcome)
        c == cleanup_old_backups(r.dir, backup_settings.keep_count, fail)
    IN  /\ fail <= Len(Excess(r.dir, backup_settings.keep_count))
        /\ backup_dir' = c.dir
        /\ uploads' = uploads \cup {t}
        /\ total_runs' = CountRun(r.success)
        /\ last' = [op |-> "auto_backup_task", uid |-> 0,
                    reply |-> AutoResult(outcome, r.success /\ c.error),
                    deleted |-> c.deleted]
        /\ now' = t
        /\ UNCHANGED <<phase, config, schedVars, wlVars, issued>>

\* auto_backup_task, run at the second t, up to "await
\* self.bot.send_document": create_backup and, when it succeeded,
\* cleanup_old_backups.  Nothing in it touches the job.
\* fail = 0: every unlink succeeds; fail = i: the i-th unlink raises.
auto_backup_task(t, outcome, fail) ==
    LET r == create_backup(backup_dir, t, outcome)
        c == cleanup_old_backups(r.dir, backup_settings.keep_count, fail)
    IN  /\ fail <= Len(Excess(r.dir, backup_settings.keep_count))
        /\ r.success \/ fail = 0
        /\ backup_dir' = IF r.success THEN c.dir ELSE r.dir
        /\ uploads' = IF r.success THEN uploads \cup {r.path.name} ELSE uploads
        /\ total_runs' = CountRun(r.success)
        /\ last' = [op |-> "auto_backup_task", uid |-> 0,
                    reply |-> AutoResult(outcome, r.success /\ c.error),
                    deleted |-> IF r.success THEN c.deleted ELSE <<>>]
        /\ now' = t
        /\ UNCHANGED <<phase, config, schedVars, wlVars, issued>>

\* The clock reaches the fire time of an armed timer, the first second of a
\* minute: the event loop calls the function the Cron object was given,
\* func=self.auto_backup_task, and keeps the timer.
fire(outcomes) ==
    /\ phase = "polling"
    /\ timers # {}
    /\ now < MaxTime
    /\ \E outcome \in outcomes, fail \in 0..(Len(backup_dir) + 1) :
           auto_backup_task(now + 1, outcome, fail)
    /\ UNCHANGED clock

\* The event loop sleeps until the next fire time of the armed job and calls
\* auto_backup_task then.
cron_fire ==
    /\ phase = "polling"
    /\ timers # {}
    /\ backup_job \in timers
    /\ clock' = [at |-> NextFire(backup_job.spec, clock.at), prev |-> clock.at]
    /\ auto_backup_task(now, "missing", 0)

\* A call of cleanup_old_backups by itself: a retention pass over the
\* directory as it is, no archive having been added.
cleanup_pass(fail) ==
    LET c == cleanup_old_backups(backup_dir, backup_settings.keep_count, fail)
    IN  /\ phase = "polling"
        /\ fail <= Len(Excess(backup_dir, backup_settings.keep_count))
        /\ backup_dir' = c.dir
        /\ last' = [op |-> "cleanup_old_backups", uid |-> 0,
                    reply |-> IF c.error THEN "cleanup_error" ELSE "ok",
                    deleted |-> c.deleted]
        /\ UNCHANGED <<phase, config, clock, schedVars, now, uploads, total_runs,
                       wlVars, issued>>

\* The variant of the upload that removes the archive it could not send.
upload_removes_artifact ==
    /\ phase = "polling"
    /\ \E name \in uploads, sent \in BOOLEAN :
        /\ uploads' = uploads \ {name}
        /\ backup_dir' = IF sent THEN backup_dir
                         ELSE SelectSeq(backup_dir, LAMBDA x : x # name)
        /\ last' = [op |-> "upload", uid |-> 0,
                    reply |-> IF sent /\ name \in Names(backup_dir)
                              THEN "sent" ELSE "upload_failed",
                    deleted |-> <<>>]
    /\ UNCHANGED <<phase, config, clock, schedVars, now, total_runs, wlVars, issued>>

\* The rest of a backup run: open(backup_path) and send_document.  The upload
\* fails when the file is gone or when Telegram refuses; both are caught.
upload ==
    /\ phase = "polling"
    /\ \E name \in uploads, sent \in BOOLEAN :
        /\ uploads' = uploads \ {name}
        /\ last' = [op |-> "upload", uid |-> 0,
                    reply |-> IF sent /\ name \in Names(backup_dir)
                              THEN "sent" ELSE "upload_failed",
                    deleted |-> <<>>]
    /\ UNCHANGED <<phase, config, clock, schedVars, now, backup_dir, total_runs, wlVars,
                   issued>>

-----------------------------------------------------------------------------
(* Requests: the backup settings *)

\* The variant of callback_toggle_auto_backup without the is_admin check.
callback_toggle_auto_backup_unchecked(uid, save) ==
    /\ phase = "polling"
    /\ Cardinality(timers) < MaxJobs
    /\ LET s == [backup_settings EXCEPT !.enabled = ~@]
           r == setup_auto_backup(s, backup_job, timers)
       IN  /\ backup_settings' = s
           /\ settings_file' = save_backup_settings(s, settings_file, save)
           /\ backup_job' = r.job
           /\ timers' = r.timers
           /\ setup_log' = r.log
    /\ last' = Handled("toggle_auto_backup", uid, "settings")
    /\ issued' = <<>>
    /\ UNCHANGED <<phase, config, clock, keep_changed, backupVars, wlVars>>

\* callback_toggle_auto_backup
callback_toggle_auto_backup(uid, save) ==
    /\ phase = "polling"
    /\ Cardinality(timers) < MaxJobs
    /\ IF ~is_admin(uid)
       THEN Deny("toggle_auto_backup", uid, "denied")
       ELSE /\ LET s == [backup_settings EXCEPT !.enabled = ~@]
                   r == setup_auto_backup(s, backup_job, timers)
               IN  /\ backup_settings' = s
                   /\ settings_file' = save_backup_settings(s, settings_file, save)
                   /\ backup_job' = r.job
                   /\ timers' = r.timers
                   /\ setup_log' = r.log
            /\ last' = Handled("toggle_auto_backup", uid, "settings")
            /\ issued' = <<>>
            /\ UNCHANGED <<phase, config, clock, keep_changed, backupVars, wlVars>>

\* The variant of callback_set_interval that stores the interval and leaves
\* the job as it is.
callback_set_interval_no_setup(uid, interval, save) ==
    /\ phase = "polling"
    /\ Cardinality(timers) < MaxJobs
    /\ IF ~is_admin(uid)
       THEN Deny("set_interval", uid, "denied")
       ELSE /\ LET s == [backup_settings EXCEPT !.interval = interval]
               IN  /\ backup_settings' = s
                   /\ settings_file' = save_backup_settings(s, settings_file, save)
            /\ last' = Handled("set_interval", uid, "settings")
            /\ issued' = <<>>
            /\ UNCHANGED <<phase, config, clock, backup_job, timers, setup_log,
                           keep_changed, backupVars, wlVars>>

\* callback_set_interval: the text after "interval_" is stored as it is.
callback_set_interval(uid, interval, save) ==
    /\ phase = "polling"
    /\ Cardinality(timers) < MaxJobs
    /\ IF ~is_admin(uid)
       THEN Deny("set_interval", uid, "denied")
       ELSE /\ LET s == [backup_settings EXCEPT !.interval = interval]
                   r == setup_auto_backup(s, backup_job, timers)
               IN  /\ backup_settings' = s
                   /\ settings_file' = save_backup_settings(s, settings_file, save)
                   /\ backup_job' = r.job
                   /\ timers' = r.timers
                   /\ setup_log' = r.log
            /\ last' = Handled("set_interval", uid, "settings")
            /\ issued' = <<>>
            /\ UNCHANGED <<phase, config, clock, keep_changed, backupVars, wlVars>>

\* The time check of handle_text: two parts, both integers, 0..23 and 0..59.
TimeTextValid(text) ==
    LET parts == split(strip(text), ":")
    IN  /\ Len(parts) = 2
        /\ int_ok(parts[1]) /\ int_ok(parts[2])
        /\ int(parts[1]) >= 0 /\ int(parts[1]) <= 23
        /\ int(parts[2]) >= 0 /\ int(parts[2]) <= 59

\* f"{hour:02d}:{minute:02d}"
FormatTime(text) ==
    LET parts == split(strip(text), ":")
    IN  fmt02d(int(parts[1])) \o <<":">> \o fmt02d(int(parts[2]))

\* The count check of handle_text: an integer from 1 to 50.
CountTextValid(text) ==
    int_ok(strip(text)) /\ int(strip(text)) >= 1 /\ int(strip(text)) <= 50

\* The variant of the time prompt's branch without the check of the ranges.
SetBackupTime_no_range(uid, text, save) ==
    IF /\ Len(split(strip(text), ":")) = 2
       /\ int_ok(split(strip(text), ":")[1])
       /\ int_ok(split(strip(text), ":")[2])
    THEN /\ LET s == [backup_settings EXCEPT !.time = FormatTime(text)]
                r == setup_auto_backup(s, backup_job, timers)
            IN  /\ backup_settings' = s
                /\ settings_file' = save_backup_settings(s, settings_file, save)
                /\ backup_job' = r.job
                /\ timers' = r.timers
                /\ setup_log' = r.log
         /\ last' = Handled("handle_text", uid, "time_set")
         /\ issued' = <<>>
         /\ UNCHANGED <<phase, config, clock, keep_changed, backupVars, wlVars>>
    ELSE /\ last' = Handled("handle_text", uid, "invalid_time")
         /\ issued' = <<>>
         /\ UNCHANGED <<phase, config, clock, schedVars, backupVars, wlVars>>

\* handle_text, replying to the "time for the backups" prompt
SetBackupTime(uid, text, save) ==
    IF TimeTextValid(text)
    THEN /\ LET s == [backup_settings EXCEPT !.time = FormatTime(text)]
                r == setup_auto_backup(s, backup_job, timers)
            IN  /\ backup_settings' = s
                /\ settings_file' = save_backup_settings(s, settings_file, save)
                /\ backup_job' = r.job
                /\ timers' = r.timers
                /\ setup_log' = r.log
         /\ last' = Handled("handle_text", uid, "time_set")
         /\ issued' = <<>>
         /\ UNCHANGED <<phase, config, clock, keep_changed, backupVars, wlVars>>
    ELSE /\ last' = Handled("handle_text", uid, "invalid_time")
         /\ issued' = <<>>
         /\ UNCHANGED <<phase, config, clock, schedVars, backupVars, wlVars>>

\* The variant of the count prompt's branch that runs a retention pass with
\* the new count at once.
SetBackupCount_with_cleanup(uid, text, save) ==
    IF CountTextValid(text)
    THEN /\ LET s == [backup_settings EXCEPT !.keep_count = int(strip(text))]
            IN  /\ backup_settings' = s
                /\ settings_file' = save_backup_settings(s, settings_file, save)
                /\ keep_changed' = KeepChanged(s)
                /\ backup_dir' = cleanup_old_backups(backup_dir, s.keep_count, 0).dir
         /\ last' = Handled("handle_text", uid, "count_set")
         /\ issued' = <<>>
         /\ UNCHANGED <<phase, config, clock, backup_job, timers, setup_log, now,
                        uploads, total_runs, wlVars>>
    ELSE /\ last' = Handled("handle_text", uid, "invalid_count")
         /\ issued' = <<>>
         /\ UNCHANGED <<phase, config, clock, schedVars, backupVars, wlVars>>

\* handle_text, replying to the "number of backups" prompt
SetBackupCount(uid, text, save) ==
    IF CountTextValid(text)
    THEN /\ LET s == [backup_settings EXCEPT !.keep_count = int(strip(text))]
            IN  /\ backup_settings' = s
                /\ settings_file' = save_backup_settings(s, settings_file, save)
                /\ keep_changed' = KeepChanged(s)
         /\ last' = Handled("handle_text", uid, "count_set")
         /\ issued' = <<>>
         /\ UNCHANGED <<phase, config, clock, backup_job, timers, setup_log, backupVars,
                        wlVars>>
    ELSE /\ last' = Handled("handle_text", uid, "invalid_count")
         /\ issued' = <<>>
         /\ UNCHANGED <<phase, config, clock, schedVars, backupVars, wlVars>>

-----------------------------------------------------------------------------
(* Requests: the manual backup *)

\* The body cmd_backup and callback_create_backup share, up to the upload:
\* create_backup and the reply.  No cleanup_old_backups call follows.
ManualBackup(op, uid, outcome) ==
    LET r == create_backup(backup_dir, now, outcome)
    IN  /\ backup_dir' = r.dir
        /\ uploads' = IF r.success THEN uploads \cup {r.path.name} ELSE uploads
        /\ total_runs' = CountRun(r.success)
        /\ last' = Handled(op, uid, IF r.success THEN "backup_created"
                                    ELSE "backup_failed")
        /\ issued' = <<>>
        /\ UNCHANGED <<phase, config, clock, schedVars, now, wlVars>>

\* cmd_backup (/backup)
cmd_backup(uid, outcome) ==
    /\ phase = "polling"
    /\ IF ~is_admin(uid)
       THEN Deny("cmd_backup", uid, "denied")
       ELSE ManualBackup("cmd_backup", uid, outcome)

\* callback_create_backup (the "create backup" button)
callback_create_backup(uid, outcome) ==
    /\ phase = "polling"
    /\ IF ~is_admin(uid)
       THEN Deny("create_backup", uid, "denied")
       ELSE ManualBackup("create_backup", uid, outcome)

-----------------------------------------------------------------------------
(* Requests: server commands and the allow-list *)

\* execute_server_command: "rcon": the command reached the server over RCON;
\* "file": RCON is not available and the command was appended to
\* /app/server_commands.txt; "fail": that write failed too.
Vias == {"rcon", "file", "fail"}

\* A server command: its fixed words and the text put after them.
Cmd(words, text) == [words |-> words, text |-> text]

execute_server_command(command, via) ==
    [ok |-> via # "fail", entry |-> [cmd |-> command, via |-> via]]

\* subprocess.run(["systemctl", verb, SERVER_SERVICE], check=True)
systemctl(verb, ok) ==
    [cmd |-> Cmd("systemctl " \o verb, <<>>),
     via |-> IF ok THEN "done" ELSE "raised"]

\* save_whitelist: TRUE and the cache is the list written, or FALSE.  The
\* outcomes are those of save_backup_settings: "unchanged": open() failed;
\* "corrupt": the write failed after open("w") truncated the file, which
\* load_whitelist then reads as no names.
save_whitelist(whitelist, file, cache, outcome) ==
    CASE outcome = "ok" ->
            [ok |-> TRUE, file |-> whitelist, cache |-> whitelist]
      [] outcome = "unchanged" ->
            [ok |-> FALSE, file |-> file, cache |-> cache]
      [] outcome = "corrupt" ->
            [ok |-> FALSE, file |-> <<>>, cache |-> cache]

\* str.replace("remove_player_", ""), a text being a sequence of tokens
RemovePrefixToken(data) == SelectSeq(data, LAMBDA x : x # "remove_player_")

\* The variant of the add that appends without looking for the name.
AddPlayer_no_check(uid, text, wsave, via1, via2) ==
    LET player_name == strip(text)
        whitelist   == load_whitelist(whitelist_file)
        appended    == Append(whitelist, player_name)
        saved       == save_whitelist(appended, whitelist_file, appended, wsave)
    IN  /\ whitelist_file' = saved.file
        /\ whitelist_cache' = saved.cache
        /\ issued' = IF saved.ok
                     THEN << execute_server_command(
                                 Cmd("whitelist add", player_name), via1).entry,
                             execute_server_command(
                                 Cmd("whitelist reload", <<>>), via2).entry >>
                     ELSE <<>>
        /\ last' = Handled("handle_text", uid,
                       IF ~saved.ok THEN "add_failed"
                       ELSE IF via1 # "fail" THEN "player_added"
                       ELSE "added_to_file_only")
        /\ UNCHANGED <<phase, config, clock, schedVars, backupVars>>

\* handle_text, replying to the "player's nickname" prompt.  load_whitelist
\* returns the cache itself, so the append is made to the cache.
AddPlayer(uid, text, wsave, via1, via2) ==
    LET player_name == strip(text)
        whitelist   == load_whitelist(whitelist_file)
        appended    == Append(whitelist, player_name)
        saved       == save_whitelist(appended, whitelist_file, appended, wsave)
    IN  IF \E i \in 1..Len(whitelist) : whitelist[i] = player_name
        THEN /\ whitelist_cache' = whitelist
             /\ last' = Handled("handle_text", uid, "player_exists")
             /\ issued' = <<>>
             /\ UNCHANGED <<phase, config, clock, schedVars, backupVars, whitelist_file>>
        ELSE /\ whitelist_file' = saved.file
             /\ whitelist_cache' = saved.cache
             /\ issued' = IF saved.ok
                          THEN << execute_server_command(
                                      Cmd("whitelist add", player_name), via1).entry,
                                  execute_server_command(
                                      Cmd("whitelist reload", <<>>), via2).entry >>
                          ELSE <<>>
             /\ last' = Handled("handle_text", uid,
                            IF ~saved.ok THEN "add_failed"
                            ELSE IF via1 # "fail" THEN "player_added"
                            ELSE "added_to_file_only")
             /\ UNCHANGED <<phase, config, clock, schedVars, backupVars>>

\* handle_text, replying to the "message to send" prompt
SendMessage(uid, text, via) ==
    /\ issued' = << execute_server_command(Cmd("say", strip(text)), via).entry >>
    /\ last' = Handled("handle_text", uid,
                       IF via # "fail" THEN "message_sent" ELSE "error")
    /\ UNCHANGED <<phase, config, clock, schedVars, backupVars, wlVars>>

\* The reply to a text that answers no prompt: the main menu
ShowMenu(op, uid, reply) ==
    /\ last' = Handled(op, uid, reply)
    /\ issued' = <<>>
    /\ UNCHANGED <<phase, config, clock, schedVars, backupVars, wlVars>>

Prompts == {"add_player", "send_message", "backup_time", "backup_count", "none"}

\* handle_text: the prompt the text replies to selects the branch.  A
\* requester who is not the administrator gets no reply at all.
handle_text(uid, prompt, text, wsave, save, via1, via2) ==
    /\ phase = "polling"
    /\ Cardinality(timers) < MaxJobs
    /\ IF ~is_admin(uid) THEN Deny("handle_text", uid, "none")
       ELSE IF prompt = "add_player" THEN AddPlayer(uid, text, wsave, via1, via2)
       ELSE IF prompt = "send_message" THEN SendMessage(uid, text, via1)
       ELSE IF prompt = "backup_time" THEN SetBackupTime(uid, text, save)
       ELSE IF prompt = "backup_count" THEN SetBackupCount(uid, text, save)
       ELSE ShowMenu("handle_text", uid, "menu")

\* callback_remove_player_confirm
callback_remove_player_confirm(uid, data, wsave, via1, via2) ==
    /\ phase = "polling"
    /\ IF ~is_admin(uid)
       THEN Deny("remove_player_confirm", uid, "denied")
       ELSE LET player_name   == RemovePrefixToken(data)
                whitelist     == load_whitelist(whitelist_file)
                new_whitelist == SelectSeq(whitelist, LAMBDA p : p # player_name)
                saved         == save_whitelist(new_whitelist, whitelist_file,
                                                whitelist, wsave)
            IN  IF Len(new_whitelist) = Len(whitelist)
                THEN /\ whitelist_cache' = whitelist
                     /\ last' = Handled("remove_player_confirm", uid, "not_found")
                     /\ issued' = <<>>
                     /\ UNCHANGED <<phase, config, clock, schedVars, backupVars,
                                    whitelist_file>>
                ELSE /\ whitelist_file' = saved.file
                     /\ whitelist_cache' = saved.cache
                     /\ issued' = IF saved.ok
                                  THEN << execute_server_command(
                                              Cmd("whitelist remove", player_name),
                                              via1).entry,
                                          execute_server_command(
                                              Cmd("whitelist reload", <<>>), via2).entry >>
                                  ELSE <<>>
                     /\ last' = Handled("remove_player_confirm", uid,
                                    IF saved.ok THEN "player_removed"
                                    ELSE "remove_failed")
                     /\ UNCHANGED <<phase, config, clock, schedVars, backupVars>>

\* The handlers that only show a text, a menu or a prompt.
ShowHandlers ==
    { <<"cmd_start", "menu">>, <<"cmd_help", "help">>,
      <<"cmd_whitelist", "menu">>, <<"server_control", "menu">>,
      <<"whitelist_menu", "menu">>, <<"back_to_main", "menu">>,
      <<"add_player", "prompt">>, <<"send_message", "prompt">>,
      <<"set_backup_interval", "menu">>, <<"set_backup_time", "prompt">>,
      <<"set_backup_count", "prompt">>, <<"backup_settings", "settings">>,
      <<"cmd_status", "status">>, <<"server_status", "status">>,
      <<"cmd_logs", "logs">>, <<"server_logs", "logs">>,
      <<"service_status", "service_status">> }

\* cmd_start, cmd_help, cmd_whitelist, cmd_status, cmd_logs and the callbacks
\* that edit the message into a menu, a prompt, the status, the settings or
\* the logs: the is_admin check, then the reply.
show(h, uid) ==
    /\ phase = "polling"
    /\ IF ~is_admin(uid)
       THEN Deny(h[1], uid, "denied")
       ELSE ShowMenu(h[1], uid, h[2])

\* The handlers that read the allow-list: get_server_info, show_whitelist and
\* remove_player call load_whitelist, which refreshes the cache.
ListHandlers ==
    { <<"cmd_info", "info">>, <<"server_info", "info">>,
      <<"show_whitelist", "whitelist">>, <<"remove_player", "whitelist">> }

\* cmd_info, callback_server_info, callback_show_whitelist,
\* callback_remove_player
list(h, uid) ==
    /\ phase = "polling"
    /\ IF ~is_admin(uid)
       THEN Deny(h[1], uid, "denied")
       ELSE /\ whitelist_cache' = load_whitelist(whitelist_file)
            /\ last' = Handled(h[1], uid, h[2])
            /\ issued' = <<>>
            /\ UNCHANGED <<phase, config, clock, schedVars, backupVars, whitelist_file>>

\* The buttons that relay one fixed command.
CommandButtons ==
    { <<"save_world", "save-all">>,
      <<"weather_clear", "weather clear">>,
      <<"weather_rain", "weather rain">>,
      <<"weather_thunder", "weather thunder">>,
      <<"time_day", "time set day">>,
      <<"time_night", "time set night">>,
      <<"list_players", "list">>,
      <<"refresh_whitelist", "whitelist reload">> }

\* callback_save_world, callback_weather_*, callback_time_*,
\* callback_list_players, callback_refresh_whitelist: the result of
\* execute_server_command is not looked at.
button(b, uid, via) ==
    /\ phase = "polling"
    /\ IF ~is_admin(uid)
       THEN Deny(b[1], uid, "denied")
       ELSE /\ issued' = << execute_server_command(Cmd(b[2], <<>>), via).entry >>
            /\ last' = Handled(b[1], uid, "command_sent")
            /\ UNCHANGED <<phase, config, clock, schedVars, backupVars, wlVars>>

\* cmd_command (/command <args>) and cmd_message (/message <text>)
cmd_command(op, uid, args, via) ==
    /\ phase = "polling"
    /\ IF ~is_admin(uid)
       THEN Deny(op, uid, "denied")
       ELSE IF args = <<>>
       THEN ShowMenu(op, uid, "usage")
       ELSE /\ issued' = << execute_server_command(
                               Cmd(IF op = "cmd_message" THEN "say" ELSE "", args),
                               via).entry >>
            /\ last' = Handled(op, uid, IF via # "fail" THEN "command_sent"
                                        ELSE "error")
            /\ UNCHANGED <<phase, config, clock, schedVars, backupVars, wlVars>>

\* callback_start_server, callback_stop_server, callback_restart_server:
\* stop and restart warn the players first; systemctl may raise.
service(verb, uid, via, ok) ==
    /\ phase = "polling"
    /\ IF ~is_admin(uid)
       THEN Deny(verb \o "_server", uid, "denied")
       ELSE /\ issued' =
                  IF verb = "start" THEN << systemctl(verb, ok) >>
                  ELSE << execute_server_command(Cmd("say", <<verb>>), via).entry,
                          systemctl(verb, ok) >>
            /\ last' = Handled(verb \o "_server", uid,
                               IF ok THEN "status" ELSE "error")
            /\ UNCHANGED <<phase, config, clock, schedVars, backupVars, wlVars>>

-----------------------------------------------------------------------------
(* The inputs of the model *)

TimeTexts ==
    { T1530,
      <<" ", "3", ":", "0", "0">>,
      <<"2", "4", ":", "0", "0">>,
      <<"1", "2", ":", "6", "0">>,
      <<"a", ":", "0", "0">>,
      <<"1", ":", "2", ":", "3">>,
      TBad }

CountTexts ==
    { <<"1">>, <<" ", "3", " ">>, <<"0">>, <<"5", "1">>, <<"x">>, <<>> }

NameTexts == { <<"a">>, <<" ", "a">>, <<"b">> }

MessageTexts == { <<"h", "i">> }

CommandArgs == { <<>>, <<"l", "i", "s", "t">> }

TextsFor(prompt) ==
    CASE prompt = "add_player"   -> NameTexts
      [] prompt = "send_message" -> MessageTexts
      [] prompt = "backup_time"  -> TimeTexts
      [] prompt = "backup_count" -> CountTexts
      [] prompt = "none"         -> MessageTexts

-----------------------------------------------------------------------------
(* Specifications *)

\* The requests of the bot, from the requesters in U, with the inputs in.
Requests(U, in) ==
    \/ \E uid \in U, save \in in.saves : callback_toggle_auto_backup(uid, save)
    \/ \E uid \in U, i \in in.intervals, save \in in.saves :
           callback_set_interval(uid, i, save)
    \/ \E uid \in U, prompt \in Prompts, wsave \in in.wsaves, via \in in.vias :
           \E text \in TextsFor(prompt) \cap in.texts, save \in in.saves :
               handle_text(uid, prompt, text, wsave, save, via, via)
    \/ \E uid \in U, outcome \in in.outcomes : cmd_backup(uid, outcome)
    \/ \E uid \in U, outcome \in in.outcomes : callback_create_backup(uid, outcome)
    \/ \E uid \in U, n \in NameTexts \cap in.texts, wsave \in in.wsaves,
          via \in in.vias :
           callback_remove_player_confirm(uid, <<"remove_player_">> \o n, wsave,
                                          via, via)
    \/ \E uid \in U, h \in ShowHandlers : show(h, uid)
    \/ \E uid \in U, h \in ListHandlers : list(h, uid)
    \/ \E uid \in U, b \in CommandButtons, via \in in.vias : button(b, uid, via)
    \/ \E uid \in U, op \in {"cmd_command", "cmd_message"}, args \in CommandArgs,
          via \in in.vias : cmd_command(op, uid, args, via)
    \/ \E uid \in U, verb \in {"start", "stop", "restart"}, via \in in.vias,
          ok \in in.oks : service(verb, uid, via, ok)

\* SpecAuth: every handler, requested by the administrator and by others.
\* The administrator's inputs are few, to keep the states the requests are
\* made in few: the rejection does not read the state.
AuthInputs ==
    [saves     |-> {"ok"},
     wsaves    |-> {"ok"},
     intervals |-> {"hourly"},
     oks       |-> {TRUE},
     vias      |-> {"file"},
     outcomes  |-> {"missing", "write_failed"},
     texts     |-> {T1530, TBad, <<"1">>, <<"x">>, <<"a">>, <<"h", "i">>}]

InitAuth ==
    /\ Init
    /\ config = [enabled |-> TRUE, interval |-> "daily", time |-> T0300,
                 keep_count |-> 2]
    /\ settings_file = FileAbsent
    /\ whitelist_file = <<>>
    /\ backup_dir = <<>>

NextAuth ==
    \/ start_polling
    \/ Requests(Users, AuthInputs)

SpecAuth == InitAuth /\ [][NextAuth]_vars

\* SpecSched: the scheduler.  Start, stop and restart of the process, the
\* settings requests of the administrator, and the timer.  No archive gets
\* built: no action of the scheduler reads the backup directory.
NextSched ==
    \/ start_polling
    \/ shutdown
    \/ restart
    \/ fire({"missing", "write_failed"})
    \/ \E save \in {"ok"} : callback_toggle_auto_backup(ADMIN_ID, save)
    \/ \E i \in Intervals, save \in {"ok"} :
           callback_set_interval(ADMIN_ID, i, save)
    \/ \E prompt \in {"backup_time", "backup_count"}, save \in {"ok"} :
           \E text \in TextsFor(prompt) :
               handle_text(ADMIN_ID, prompt, text, "ok", save, "file", "file")

InitSched ==
    /\ Init
    /\ whitelist_file = <<>>
    /\ backup_dir = <<>>

SpecSched == InitSched /\ [][NextSched]_vars

\* SpecBackup: the backups.  The clock, the timer, the manual backups of the
\* administrator and the change of keep_count.
NextBackup ==
    \/ start_polling
    \/ tick
    \/ fire(BackupOutcomes)
    \/ upload
    \/ \E outcome \in BackupOutcomes : cmd_backup(ADMIN_ID, outcome)
    \/ \E outcome \in BackupOutcomes : callback_create_backup(ADMIN_ID, outcome)
    \/ \E text \in CountTexts :
           handle_text(ADMIN_ID, "backup_count", text, "ok", "ok", "file", "file")

InitBackup ==
    /\ Init
    /\ whitelist_file = <<>>
    /\ backup_dir = <<>>
    /\ \/ settings_file = FileAbsent
       \/ config = ConfigDefault /\ settings_file.status = "ok"

SpecBackup == InitBackup /\ [][NextBackup]_vars

\* SpecRetention: the scheduled runs over a directory that holds the archives
\* of earlier processes.
NextRetention ==
    \/ start_polling
    \/ tick
    \/ fire(BackupOutcomes)
    \/ upload

InitRetention ==
    /\ Init
    /\ whitelist_file = <<>>
    /\ \/ settings_file = FileAbsent
       \/ config = ConfigDefault /\ settings_file.status = "ok"

SpecRetention == InitRetention /\ [][NextRetention]_vars

\* SpecCron: the fire times.  The bot starts at some minute of the week with
\* an enabled schedule of each interval, and the timer fires at the times of
\* its cron expression.
CronConfigs ==
    {[enabled |-> TRUE, interval |-> i, time |-> t, keep_count |-> 7] :
         i \in Intervals, t \in {T0300, T1530}}

\* The settings files the bot starts with: none, or one a session before wrote.
CronFiles ==
    {FileAbsent,
     FileOf([enabled |-> TRUE, interval |-> "daily", time |-> T1530,
             keep_count |-> 3]),
     FileOf([enabled |-> TRUE, interval |-> "weekly", time |-> T0300,
             keep_count |-> 3])}

\* The times of day the bot is started at, as <<hour, minute>>.
StartTimes ==
    { <<0, 0>>, <<2, 59>>, <<3, 0>>, <<3, 1>>, <<10, 7>>, <<10, 14>>, <<10, 15>>,
      <<10, 22>>, <<10, 30>>, <<10, 59>>, <<15, 30>>, <<23, 59>> }

ClockStarts == {ClockAt(MinuteOf(d, t[1], t[2])) : d \in 0..6, t \in StartTimes}

NextCron ==
    \/ start_polling
    \/ cron_fire

InitCron ==
    /\ InitWith(CronConfigs, CronFiles, ClockStarts)
    /\ whitelist_file = <<>>
    /\ backup_dir = <<>>

SpecCron == InitCron /\ [][NextCron]_vars

\* SpecPass: the retention pass by itself, over the directories earlier
\* processes left, for the keep_count values a .env file can set.
PassConfigs ==
    {[enabled |-> FALSE, interval |-> "daily", time |-> T0300, keep_count |-> k] :
         k \in {0 - 1, 0, 1, 2, 3, 50}}

NextPass ==
    \/ start_polling
    \/ \E fail \in 0..MaxPast : cleanup_pass(fail)

InitPass ==
    /\ InitWith(PassConfigs, {FileAbsent}, {ClockAt(0)})
    /\ whitelist_file = <<>>

SpecPass == InitPass /\ [][NextPass]_vars

\* SpecRelay: the allow-list and the commands relayed to the server, with
\* every outcome of the write of whitelist.json and of the relay.  A name
\* is a text; "remove_player_" is the one token of a button's data.
RelayNames == { <<"a">>, <<"b">>, <<"remove_player_", "a">> }

RelayAddTexts == RelayNames \cup { <<" ", "a">> }

NextRelay ==
    \/ start_polling
    \/ \E text \in RelayAddTexts, wsave \in SaveOutcomes, via1 \in Vias,
          via2 \in Vias :
           handle_text(ADMIN_ID, "add_player", text, wsave, "ok", via1, via2)
    \/ \E n \in RelayNames, wsave \in SaveOutcomes, via \in Vias :
           callback_remove_player_confirm(ADMIN_ID, <<"remove_player_">> \o n,
                                          wsave, via, via)
    \/ \E op \in {"cmd_command", "cmd_message"}, args \in CommandArgs,
          via \in Vias : cmd_command(op, ADMIN_ID, args, via)

InitRelay ==
    /\ InitWith({ConfigDefault}, {FileAbsent}, {ClockAt(0)})
    /\ backup_dir = <<>>

SpecRelay == InitRelay /\ [][NextRelay]_vars

\* SpecPersist: the settings and their file.  The administrator changes the
\* settings while the file can or cannot be written, and the process stops
\* and starts again.
PersistConfigs ==
    { ConfigDefault,
      [enabled |-> TRUE, interval |-> "daily", time |-> T0300, keep_count |-> 2] }

NextPersist ==
    \/ start_polling
    \/ shutdown
    \/ restart
    \/ \E save \in SaveOutcomes : callback_toggle_auto_backup(ADMIN_ID, save)
    \/ \E i \in {"hourly", "weekly"}, save \in SaveOutcomes :
           callback_set_interval(ADMIN_ID, i, save)
    \/ \E prompt \in {"backup_time", "backup_count"}, save \in SaveOutcomes :
           \E text \in TextsFor(prompt) \cap {T1530, TBad, <<"1">>, <<"x">>} :
               handle_text(ADMIN_ID, prompt, text, "ok", save, "file", "file")

InitPersist ==
    /\ InitWith(PersistConfigs, {FileAbsent}, {ClockAt(0)})
    /\ whitelist_file = <<>>
    /\ backup_dir = <<>>

SpecPersist == InitPersist /\ [][NextPersist]_vars

\* SpecInput: the replies to the time prompt and to the count prompt, every
\* text of the model, with the schedule on or off.
NextInput ==
    \/ start_polling
    \/ callback_toggle_auto_backup(ADMIN_ID, "ok")
    \/ \E prompt \in {"backup_time", "backup_count"} :
           \E text \in TextsFor(prompt) :
               handle_text(ADMIN_ID, prompt, text, "ok", "ok", "file", "file")

InitInput ==
    /\ InitWith(PersistConfigs, {FileAbsent}, {ClockAt(0)})
    /\ whitelist_file = <<>>
    /\ backup_dir = <<>>

SpecInput == InitInput /\ [][NextInput]_vars

-----------------------------------------------------------------------------
(* Properties *)

\* The operations that are requests: last.op of a step of a handler.
EventOps == {"init", "start_polling", "shutdown", "tick", "auto_backup_task",
             "upload", "cleanup_old_backups"}

IsRequest(l) == l.op \notin EventOps

\* The k newest files of a directory, k >= 0.
Newest(dir, k) ==
    {dir[i] : i \in (Len(dir) - Min(k, Len(dir)) + 1)..Len(dir)}

\* The directory a retention pass of a scheduled run lists: the one
\* create_backup leaves when it succeeds.
Listed == create_backup(backup_dir, now', "ok").dir

\* A step of auto_backup_task in which the retention pass ran.
PassStep == last'.op = "auto_backup_task" /\ last'.reply \in {"ok", "cleanup_error"}

\* C1: is_admin(id) is true if and only if id is ADMIN_ID, and false for every
\* other integer, 0 and the negative ones included: of every integer near
\* ADMIN_ID and its negative, and of every request handled, the requester is
\* let through exactly when the id is ADMIN_ID.
C1_IsAdminIffAdminId ==
    /\ \A id \in (0 - ADMIN_ID - 1)..(ADMIN_ID + 1) :
           is_admin(id) <=> id = ADMIN_ID
    /\ IsRequest(last) =>
           (last.reply \in {"denied", "none"} <=> last.uid # ADMIN_ID)

C1_Witness ==
    /\ last.op = "cmd_backup"
    /\ last.uid = 0 - ADMIN_ID
    /\ last.reply = "denied"

\* C2: a request whose requester is not ADMIN_ID changes nothing: the backup
\* settings, the settings file, the scheduled job, the allow-list and the
\* backup artifacts stay as they were, no server command is relayed, and the
\* reply is the rejection notice or, for a text, nothing.
C2_NonAdminNoEffect ==
    [][ (IsRequest(last') /\ last'.uid # ADMIN_ID) =>
            /\ UNCHANGED <<backup_settings, settings_file, backup_job, timers,
                           whitelist_file, whitelist_cache, backup_dir, uploads>>
            /\ issued' = <<>>
            /\ last'.reply = IF last'.op = "handle_text" THEN "none" ELSE "denied"
      ]_vars

C2_Witness ==
    /\ last.op = "toggle_auto_backup"
    /\ last.uid = 0
    /\ last.reply = "denied"
    /\ backup_settings.enabled
    /\ backup_job \in timers
    /\ whitelist_file # <<>>
    /\ backup_dir # <<>>

\* C3: at most one scheduled job is live, and it is the one the bot refers
\* to: every setup_auto_backup call stopped the prior job, once, before it
\* made at most one new job, so no timer is left that the bot has lost.
C3_OneLiveJob ==
    /\ Cardinality(timers) <= 1
    /\ \A t \in timers : t = backup_job
    /\ Len(setup_log.stopped) <= 1
    /\ setup_log.out \in {"disabled", "error", "unscheduled"} => timers = {}

\* The reconfiguration from daily 03:00 to weekly Sunday 03:00.
C3_Witness ==
    /\ last.op = "set_interval"
    /\ Len(setup_log.stopped) = 1
    /\ setup_log.stopped[1].spec = CronSpec("daily", <<"0", "3">>, <<"0", "0">>)
    /\ backup_job.spec = CronSpec("weekly", <<"0", "3">>, <<"0", "0">>)
    /\ timers = {backup_job}

\* C4: when setup_auto_backup fails to compute the schedule, the job that
\* was armed before the call is still armed and still the bot's job.
C4_FailedSetupKeepsSchedule ==
    setup_log.out = "error" =>
        \A i \in 1..Len(setup_log.stopped) :
            /\ setup_log.stopped[i] \in timers
            /\ backup_job = setup_log.stopped[i]

\* C5: after setup_auto_backup: with enabled false there is no job; otherwise
\* a job is armed, and it is the one derived from the interval and the time.
C5_ConfiguredState ==
    (phase = "polling") =>
        IF ~backup_settings.enabled
        THEN backup_job = None /\ timers = {}
        ELSE /\ backup_job # None
             /\ backup_job \in timers
             /\ backup_settings.interval \in Intervals
             /\ LET parts == split(backup_settings.time, ":")
                IN  backup_job.spec =
                        CronSpec(backup_settings.interval,
                                 IF backup_settings.interval \in {"daily", "weekly"}
                                 THEN parts[1] ELSE <<>>,
                                 IF backup_settings.interval \in {"daily", "weekly"}
                                 THEN parts[2] ELSE <<>>)

\* C6: a scheduled run that fails (the archive is not built, or a deletion of
\* the retention pass fails), and an upload that fails, leave the job as it
\* is: after the failed run the job is armed and the bot is polling, which is
\* all the next fire needs.
C6_FailedRunKeepsSchedule ==
    [][ /\ (last'.op = "auto_backup_task" /\ last'.reply # "ok") =>
              /\ UNCHANGED <<backup_job, timers, backup_settings>>
              /\ backup_job' \in timers'
              /\ phase' = "polling"
        /\ (last'.op = "upload" /\ last'.reply = "upload_failed") =>
              /\ UNCHANGED <<backup_job, timers, backup_settings, phase>>
      ]_vars

C6_Witness ==
    /\ last.op = "auto_backup_task"
    /\ last.reply = "write_failed"
    /\ backup_job \in timers
    /\ phase = "polling"

\* C7: a fire of the armed job is one run of auto_backup_task (at most one
\* archive is built, at most one upload is started), and after it the same
\* job is armed: the job is recurring.
C7_FireRunsOnceAndStaysArmed ==
    [][ last'.op = "auto_backup_task" =>
            /\ backup_job' = backup_job
            /\ timers' = timers
            /\ timers' = {backup_job'}
            /\ phase' = "polling"
            /\ total_runs' <= total_runs + 1
            /\ Len(backup_dir') <= Len(backup_dir) + 1
            /\ Cardinality(uploads' \ uploads) <= 1
            /\ last'.reply = "ok" => Listed[Len(Listed)] \in uploads'
      ]_vars

C7_Witness ==
    /\ last.op = "auto_backup_task"
    /\ last.reply = "ok"
    /\ total_runs >= 2
    /\ timers = {backup_job}

\* C8, as stated: after each retention pass the number of artifacts on disk
\* is min(total_runs, keep_count), keep_count being the same for all the runs.
C8_CountIsMinRunsKeep ==
    (/\ last.op = "auto_backup_task"
     /\ last.reply \in {"ok", "cleanup_error"}
     /\ ~keep_changed
     /\ total_runs < MaxRuns) =>
        Len(backup_dir) = Min(total_runs, backup_settings.keep_count)

\* C8, amended: after a retention pass that listed n artifacts, the number of
\* artifacts on disk is min(n, keep_count) when every deletion succeeded, and
\* otherwise more than keep_count and at most n.
C8_CountIsMinListedKeep ==
    [][ PassStep =>
            LET n == Len(Listed)
                k == backup_settings.keep_count
            IN  IF last'.reply = "ok"
                THEN Len(backup_dir') = Min(n, k)
                ELSE Len(backup_dir') > k /\ Len(backup_dir') <= n
      ]_vars

C8_Witness ==
    /\ last.op = "auto_backup_task"
    /\ last.reply = "ok"
    /\ backup_settings.keep_count = 2
    /\ ~keep_changed
    /\ total_runs = 3
    /\ last.deleted = <<0>>
    /\ backup_dir = <<1, 2>>

\* C9: right after a manual backup (/backup or the button) the number of
\* artifacts on disk does not exceed keep_count (a keep_count that the
\* settings prompt accepts, 1 to 50).
C9_ManualBackupWithinKeep ==
    (/\ last.op \in {"cmd_backup", "create_backup"}
     /\ last.reply = "backup_created"
     /\ backup_settings.keep_count \in 1..50) =>
        Len(backup_dir) <= backup_settings.keep_count

\* C10, as stated: a retention pass over more artifacts than keep_count leaves
\* exactly the keep_count newest.
C10_SurvivorsAreNewest ==
    [][ (PassStep /\ backup_settings.keep_count < Len(Listed)) =>
            Names(backup_dir') = Newest(Listed, backup_settings.keep_count)
      ]_vars

\* C10, amended: a retention pass deletes none of the keep_count newest
\* artifacts and keeps the order of those it leaves; when every deletion
\* succeeded, the artifacts it leaves are exactly the keep_count newest.
C10_NewestSurvive ==
    [][ PassStep =>
            LET k == backup_settings.keep_count
            IN  /\ Newest(Listed, k) \subseteq Names(backup_dir')
                /\ Names(backup_dir') \subseteq Names(Listed)
                /\ backup_dir' = SelectSeq(Listed, LAMBDA x : x \in Names(backup_dir'))
                /\ Names(backup_dir') = Names(Listed) \ Names(last'.deleted)
                /\ last'.reply = "ok" => Names(backup_dir') = Newest(Listed, k)
      ]_vars

\* keep_count = 3 and five backups with distinct timestamps: the three most
\* recent are left.
C10_Witness ==
    /\ last.op = "auto_backup_task"
    /\ last.reply = "ok"
    /\ backup_settings.keep_count = 3
    /\ last.deleted = <<0 - 3, 0 - 4>>
    /\ backup_dir = <<0 - 2, 0 - 1, 1>>

\* C11: when a deletion of a retention pass fails, the pass goes on with the
\* other excess artifacts, each of which is deleted, and the run is still a
\* successful backup (its archive is kept and goes to the upload).
C11_PassContinuesAfterFailure ==
    [][ (PassStep /\ last'.reply = "cleanup_error") =>
            /\ Len(last'.deleted) =
                   Len(Excess(Listed, backup_settings.keep_count)) - 1
            /\ Listed[Len(Listed)] \in uploads'
      ]_vars

\* The outcomes of create_backup that are failures.
FailedOutcomes == BackupOutcomes \ {"ok"}

\* C12: a failed archive build has success false and no artifact path, and the
\* run ends there, scheduled or manual: no artifact is deleted and no upload
\* is started.
C12_FailedBuildShortCircuits ==
    [][ /\ \A outcome \in FailedOutcomes :
              /\ ~create_backup(backup_dir, now', outcome).success
              /\ create_backup(backup_dir, now', outcome).path = NoPath
        /\ (\/ last'.op = "auto_backup_task" /\ last'.reply \in FailedOutcomes
            \/ last'.op \in {"cmd_backup", "create_backup"}
                   /\ last'.reply = "backup_failed") =>
              /\ uploads' = uploads
              /\ last'.deleted = <<>>
              /\ Names(backup_dir) \subseteq Names(backup_dir')
              /\ total_runs' = total_runs
      ]_vars

\* A scheduled run fails with more artifacts on disk than keep_count.
C12_Witness ==
    /\ last.op = "auto_backup_task"
    /\ last.reply = "missing"
    /\ Len(backup_dir) > backup_settings.keep_count
    /\ uploads = {}

\* C13: an upload that fails leaves the artifacts on disk as the retention
\* pass left them, the new one included, and leaves the job armed as it was.
C13_UploadFailureKeepsArtifact ==
    [][ (last'.op = "upload" /\ last'.reply = "upload_failed") =>
            /\ backup_dir' = backup_dir
            /\ total_runs' = total_runs
            /\ \A name \in uploads \ uploads' :
                   name \in Names(backup_dir) => name \in Names(backup_dir')
            /\ UNCHANGED <<backup_job, timers, backup_settings, phase>>
      ]_vars

C13_Witness ==
    /\ last.op = "upload"
    /\ last.reply = "upload_failed"
    /\ now \in Names(backup_dir)
    /\ Len(backup_dir) = backup_settings.keep_count
    /\ total_runs > backup_settings.keep_count
    /\ timers = {backup_job}

\* C14: the archive + retention section of a scheduled run and the archive
\* creation of a manual run do not overlap, whatever the interleaving of
\* fires and requests: the retention pass of a scheduled run works on the
\* directory exactly as its own create_backup left it and is done when the
\* run's upload is pending; a manual run adds its archive and nothing else;
\* an upload changes no file.
C14_SectionsDoNotOverlap ==
    [][ /\ PassStep =>
              /\ \E fail \in 0..Len(Listed) :
                     /\ fail = 0 <=> last'.reply = "ok"
                     /\ backup_dir' = cleanup_old_backups(
                                          Listed, backup_settings.keep_count, fail).dir
                     /\ last'.deleted = cleanup_old_backups(
                                          Listed, backup_settings.keep_count, fail).deleted
              /\ Listed[Len(Listed)] \in uploads'
        /\ (last'.op \in {"cmd_backup", "create_backup"}
                /\ last'.reply = "backup_created") =>
              /\ backup_dir' = create_backup(backup_dir, now, "ok").dir
              /\ now \in uploads'
        /\ last'.op = "upload" => backup_dir' = backup_dir
      ]_vars

\* A scheduled run's section ran while a manual run was waiting for its upload.
C14_Witness ==
    /\ last.op = "auto_backup_task"
    /\ last.reply = "ok"
    /\ last.deleted # <<>>
    /\ Cardinality(uploads) >= 2

\* The cron fields setup_auto_backup derives from the settings.
JobSpecOf(settings) ==
    LET parts == split(settings.time, ":")
        timed == settings.interval \in {"daily", "weekly"}
    IN  CronSpec(settings.interval,
                 IF timed THEN parts[1] ELSE <<>>,
                 IF timed THEN parts[2] ELSE <<>>)

\* C15: a reconfiguration is one step for the timer: in every state a fire can
\* happen in, the job that is live is the bot's job and is the one derived
\* from the settings as they are now; no state has the old job stopped and the
\* new one missing, or the settings changed and the old job live.
C15_FireObservesConsistentState ==
    (phase = "polling" /\ timers # {}) =>
        /\ backup_settings.enabled
        /\ timers = {backup_job}
        /\ backup_settings.interval \in Intervals
        /\ backup_job.spec = JobSpecOf(backup_settings)

\* A fire after a reconfiguration from daily to weekly.
C15_Witness ==
    /\ last.op = "auto_backup_task"
    /\ Len(setup_log.stopped) = 1
    /\ setup_log.stopped[1].spec = CronSpec("daily", <<"0", "3">>, <<"0", "0">>)
    /\ backup_settings.interval = "weekly"
    /\ timers = {backup_job}

\* A step in which the timer fired: only a fire moves the wall clock.
FireStep == clock' # clock

\* The minute of the day that the settings' time "HH:MM" names.
TimeOfDay(settings) ==
    LET parts == split(settings.time, ":")
    IN  int(parts[1]) * 60 + int(parts[2])

\* The length in minutes of the period of the schedules without a time.
Period(interval) ==
    CASE interval = "15min"  -> 15
      [] interval = "30min"  -> 30
      [] interval = "hourly" -> 60

\* C16: the 15min, 30min and hourly schedules fire on the aligned boundaries
\* of the clock: every fire, the first one after arming included, is at the
\* first multiple of the period (counted from the full hour) after the time
\* of the event before it, whatever that time was.
C16_FiresOnAlignedBoundaries ==
    [][ (FireStep /\ backup_settings.interval \in {"15min", "30min", "hourly"}) =>
            LET n == Period(backup_settings.interval)
            IN  /\ (clock'.at % 60) % n = 0
                /\ clock'.at = (((clock.at \div n) + 1) * n) % WeekMinutes ]_vars

\* A quarter-hour schedule armed at 10:07 on Monday has fired at 10:15.
C16_Witness ==
    /\ backup_settings.interval = "15min"
    /\ last.op = "auto_backup_task"
    /\ clock.prev = MinuteOf(1, 10, 7)
    /\ clock.at = MinuteOf(1, 10, 15)

\* C17: with the daily interval and the time HH:MM, every fire is at HH:MM,
\* on the day of the event before it when HH:MM was still ahead then and on
\* the day after otherwise: the first fire after arming is today or tomorrow
\* and never in the past, and each later fire is one calendar day after the
\* fire before it.
C17_DailyFiresTodayOrTomorrow ==
    [][ (FireStep /\ backup_settings.interval = "daily") =>
            LET tod == TimeOfDay(backup_settings)
                d   == clock.at \div DayMinutes
            IN  clock'.at = IF clock.at % DayMinutes < tod
                            THEN d * DayMinutes + tod
                            ELSE ((d + 1) % 7) * DayMinutes + tod ]_vars

\* The daily schedule at 15:30 loaded from the settings file, armed at 10:07
\* on Monday, has fired on Monday at 15:30.
C17_Witness ==
    /\ settings_file.status = "ok"
    /\ backup_settings.interval = "daily"
    /\ backup_settings.time = T1530
    /\ last.op = "auto_backup_task"
    /\ clock.prev = MinuteOf(1, 10, 7)
    /\ clock.at = MinuteOf(1, 15, 30)

\* C18: with the weekly interval every fire is on Sunday at the configured
\* time of day, the one minute of the week the schedule has: the job fires
\* once a week and on no other weekday.
C18_WeeklyFiresOnSunday ==
    [][ (FireStep /\ backup_settings.interval = "weekly") =>
            /\ clock'.at \div DayMinutes = 0
            /\ clock'.at % DayMinutes = TimeOfDay(backup_settings)
            /\ NextFire(backup_job'.spec, clock'.at) = clock'.at ]_vars

\* The weekly schedule at 15:30, armed on Wednesday at 10:07, has fired on
\* Sunday at 15:30.
C18_Witness ==
    /\ backup_settings.interval = "weekly"
    /\ backup_settings.time = T1530
    /\ last.op = "auto_backup_task"
    /\ clock.prev = MinuteOf(3, 10, 7)
    /\ clock.at = MinuteOf(0, 15, 30)

\* C19: in every state, the one right after startup included, keep_count is in
\* 1..50 and time is a valid 24-hour "HH:MM".
C19_KeepCountAndTimeValid ==
    /\ backup_settings.keep_count \in 1..50
    /\ TimeTextValid(backup_settings.time)
    /\ FormatTime(backup_settings.time) = backup_settings.time

\* C20: in every state the interval of the settings is one of the five
\* values 15min, 30min, hourly, daily, weekly.
C20_IntervalIsOneOfFive ==
    backup_settings.interval \in Intervals

\* The replies that tell the administrator a settings change was applied.
IsSettingsChange(l) ==
    \/ l.op \in {"toggle_auto_backup", "set_interval"} /\ l.reply = "settings"
    \/ l.op = "handle_text" /\ l.reply \in {"time_set", "count_set"}

\* C21: when a handler that changed the settings has returned, the settings
\* file holds the settings that are in memory.
C21_ChangeIsPersisted ==
    IsSettingsChange(last) => settings_file = FileOf(backup_settings)

\* Settings that setup_auto_backup arms a job for.
Schedulable(settings) ==
    /\ settings.enabled
    /\ settings.interval \in Intervals
    /\ settings.interval \in {"daily", "weekly"} =>
           Len(split(settings.time, ":")) = 2

\* C22: the shutdown cancels the armed job and changes neither the settings
\* in memory nor the settings file, enabled included; the start that follows
\* loads the file and arms the job of the settings it holds.
C22_ShutdownKeepsSettings ==
    [][ /\ last'.op = "shutdown" =>
              /\ timers' = {}
              /\ backup_settings' = backup_settings
              /\ settings_file' = settings_file
        /\ (last'.op = "start_polling" /\ settings_file.status = "ok"
                /\ Schedulable(settings_file.data)) =>
              /\ backup_settings' = settings_file.data
              /\ timers' = {backup_job'}
              /\ backup_job'.spec = JobSpecOf(settings_file.data) ]_vars

\* The start after a shutdown: the hourly schedule that the session before
\* stored is armed again.
C22_Witness ==
    /\ last.op = "start_polling"
    /\ settings_file = FileOf(backup_settings)
    /\ backup_settings.enabled
    /\ backup_settings.interval = "hourly"
    /\ timers = {backup_job}

\* C23: a retention pass that follows a retention pass, no archive added and
\* keep_count unchanged between them, deletes nothing and leaves the
\* directory as the first pass left it.
C23_SecondPassDeletesNothing ==
    [][ (/\ last.op = "cleanup_old_backups" /\ last.reply = "ok"
         /\ last'.op = "cleanup_old_backups" /\ last'.reply = "ok") =>
            /\ last'.deleted = <<>>
            /\ backup_dir' = backup_dir ]_vars

\* C24: a create_backup that fails, in a scheduled or a manual run, leaves
\* the set of files with an archive's name as it was: no partial file stays.
C24_FailedBuildLeavesNoFile ==
    [][ (\/ last'.op \in {"cmd_backup", "create_backup"}
               /\ last'.reply = "backup_failed"
         \/ last'.op = "auto_backup_task" /\ last'.reply \in FailedOutcomes) =>
            Names(backup_dir') = Names(backup_dir) ]_vars

\* A list in which no name occurs twice.
NoDuplicates(names) ==
    \A i, j \in 1..Len(names) : names[i] = names[j] => i = j

\* C25: the stored allow-list, which starts without a name held twice, holds
\* no name twice after any sequence of adds and removes.
C25_NoDuplicateNames ==
    NoDuplicates(whitelist_file)

\* An add of a name the list of two names holds was refused.
C25_Witness ==
    /\ last.op = "handle_text"
    /\ last.reply = "player_exists"
    /\ Len(whitelist_file) >= 2

\* A reply of cmd_command or cmd_message to a command it relayed.
IsRelay(l) == l.op \in {"cmd_command", "cmd_message"} /\ l.reply # "usage"

\* C26: a relayed command that was only recorded in the command file is
\* answered otherwise than one that reached the server over RCON: the reply
\* to the one differs from the reply to the other.
C26_RecordedIsToldApart ==
    [][ (/\ IsRelay(last) /\ Len(issued) = 1 /\ issued[1].via = "rcon"
         /\ IsRelay(last') /\ Len(issued') = 1 /\ issued'[1].via = "file") =>
            last'.reply # last.reply ]_vars

\* A text of digits only, at least one.
AllDigits(t) == t # <<>> /\ \A i \in 1..Len(t) : IsDigit(t[i])

\* A text that is two integer parts around one colon, the hour in 0..23 and
\* the minute in 0..59.
IsTimeText(text) ==
    LET t == strip(text)
    IN  \E i \in 1..Len(t) :
            /\ t[i] = ":"
            /\ AllDigits(SubSeq(t, 1, i - 1))
            /\ AllDigits(SubSeq(t, i + 1, Len(t)))
            /\ DigitsValue(SubSeq(t, 1, i - 1)) <= 23
            /\ DigitsValue(SubSeq(t, i + 1, Len(t))) <= 59

\* A text that is an integer in 1..50.
IsCountText(text) ==
    /\ AllDigits(strip(text))
    /\ DigitsValue(strip(text)) >= 1
    /\ DigitsValue(strip(text)) <= 50

\* C27: a reply to the time prompt that is no valid time, and a reply to the
\* count prompt that is no integer in 1..50, is rejected: the settings, the
\* settings file and the job stay exactly as they were.
C27_InvalidInputChangesNothing ==
    [][ /\ \A text \in TimeTexts :
              (/\ ~IsTimeText(text)
               /\ handle_text(ADMIN_ID, "backup_time", text, "ok", "ok",
                              "file", "file")) =>
                  /\ last'.reply = "invalid_time"
                  /\ UNCHANGED <<backup_settings, settings_file, backup_job, timers>>
        /\ \A text \in CountTexts :
              (/\ ~IsCountText(text)
               /\ handle_text(ADMIN_ID, "backup_count", text, "ok", "ok",
                              "file", "file")) =>
                  /\ last'.reply = "invalid_count"
                  /\ UNCHANGED <<backup_settings, settings_file, backup_job, timers>>
      ]_vars

\* An invalid time was rejected while a job was armed and the file written.
C27_Witness ==
    /\ last.op = "handle_text"
    /\ last.reply = "invalid_time"
    /\ settings_file = FileOf(backup_settings)
    /\ timers = {backup_job}

\* C28: a change of keep_count changes keep_count and the settings file and
\* nothing else: the job is neither cancelled nor armed again and no archive
\* is deleted, so the directory can hold more than keep_count archives; the
\* retention pass of the next scheduled run deletes by the new value.
C28_CountChangeTouchesOnlyCount ==
    [][ /\ (last'.op = "handle_text" /\ last'.reply = "count_set") =>
              /\ backup_settings' =
                     [backup_settings EXCEPT !.keep_count = backup_settings'.keep_count]
              /\ settings_file' = FileOf(backup_settings')
              /\ UNCHANGED <<backup_job, timers, backup_dir, uploads>>
        /\ (PassStep /\ last'.reply = "ok") =>
              last'.deleted = Excess(Listed, backup_settings.keep_count)
      ]_vars

\* keep_count was lowered to 1 while two archives were in the directory and
\* the job was armed.
C28_Witness ==
    /\ last.op = "handle_text"
    /\ last.reply = "count_set"
    /\ backup_settings.keep_count = 1
    /\ Len(backup_dir) >= 2
    /\ timers = {backup_job}

\* C29: the removal of the player named n removes every entry of that name
\* and keeps the others in their order; when no entry has the name, the file
\* is not written and no command is relayed.
C29_RemoveTakesTheNamedPlayer ==
    [][ \A n \in RelayNames, via \in Vias :
            callback_remove_player_confirm(ADMIN_ID, <<"remove_player_">> \o n,
                                           "ok", via, via) =>
                IF \E i \in 1..Len(whitelist_file) : whitelist_file[i] = n
                THEN whitelist_file' = SelectSeq(whitelist_file, LAMBDA p : p # n)
                ELSE whitelist_file' = whitelist_file /\ issued' = <<>> ]_vars

\* C30: an add relays 'whitelist add' and 'whitelist reload' only after the
\* list with the new name was saved; when the name is already listed or the
\* save fails, nothing is relayed and the stored list is as it was.
C30_SaveBeforeRelay ==
    [][ /\ (last'.op = "handle_text"
                /\ last'.reply \in {"player_exists", "add_failed"}) =>
              /\ issued' = <<>>
              /\ whitelist_file' = whitelist_file
        /\ (last'.op = "handle_text" /\ issued' # <<>>
                /\ issued'[1].cmd.words = "whitelist add") =>
              /\ whitelist_file' = Append(whitelist_file, issued'[1].cmd.text)
              /\ Len(issued') = 2
              /\ issued'[2].cmd.words = "whitelist reload" ]_vars

====
